---- MODULE Spec2Model ----
(***************************************************************************)
(* A model of scripts/kohya/lycoris_utils.py: the extraction of per-layer  *)
(* weight differences into a flat factorized state (extract_diff,          *)
(* extract_linear, extract_conv), and the merge of such a state back into  *)
(* a base model (merge, get_module, rebuild_weight).                       *)
(*                                                                         *)
(* Tensors.  A tensor is a record [dtype, shape, d].  A tensor of two or   *)
(* more dimensions stands for the matrix t.reshape(shape[1], -1) that is   *)
(* zero off its main diagonal; d lists the diagonal, zeros included, so    *)
(* Len(d) = min(rows, cols).  A one-dimensional tensor lists all its       *)
(* entries in d.  Entries are integers.  The singular value decomposition  *)
(* of such a matrix whose diagonal is non-negative and descending is       *)
(* U = I, S = d, Vh = I, which is what Svd returns; every weight           *)
(* difference the model draws is of that form.                             *)
(*                                                                         *)
(* Names.  A dotted module path is a sequence of segments, a segment a     *)
(* sequence of words joined by '_' (the path "a.b_c" is <<<<"a">>,         *)
(* <<"b","c">>>>).  Words hold neither '.' nor '_', so str.replace('.',    *)
(* '_') maps a path to the concatenation of its segments.                  *)
(***************************************************************************)
EXTENDS Integers, Sequences, FiniteSets, TLC

VARIABLES pc, call, ret, base_model, db_model, lyco_state_dict, log

vars == <<pc, call, ret, base_model, db_model, lyco_state_dict, log>>

\* ---------------------------------------------------------------- bounds

\* Largest channel count (out_ch, in_ch) of a weight handed to the
\* decomposition functions.
MaxCh == 3

\* Largest singular value of a drawn spectrum.
MaxSV == 3

\* Ratio and quantile parameters are the fractions n / RatioDen.
RatioDen == 4

\* Largest scale factor handed to merge and rebuild_weight.
MaxScale == 2

\* Largest entry of a base weight or bias.
MaxW == 1

\* The weight differences drawn for a layer are numbered 0..MaxDiff;
\* difference k has the spectrum k, k - 1, ..., 1, 0, ...
MaxDiff == 2

\* ------------------------------------------------------------- utilities

\* Python's None.
None == [kind |-> "None"]

Min2(a, b) == IF a <= b THEN a ELSE b

Max2(a, b) == IF a >= b THEN a ELSE b

Abs(x) == IF x < 0 THEN -x ELSE x

\* The element of a one-element set.  Operators below that use an argument
\* more than once bind it first, as x \in {argument}, so that it is a
\* value, computed once, wherever it is used.
The(S) == CHOOSE r \in S : TRUE

RECURSIVE SeqSum(_)
SeqSum(s) == IF s = <<>> THEN 0 ELSE Head(s) + SeqSum(Tail(s))

RECURSIVE SeqMax(_)
SeqMax(s) == IF Len(s) = 1 THEN Head(s) ELSE Max2(Head(s), SeqMax(Tail(s)))

RECURSIVE Prod(_)
Prod(s) == IF s = <<>> THEN 1 ELSE Head(s) * Prod(Tail(s))

\* Descending sequences of length n over 0..m that are not all zero: the
\* spectra of the weight differences extract_lora decomposes, which it
\* skips when they are zero (lines 155, 156).
DescSeqs(n, m) ==
    { s \in [1..n -> 0..m] : s[1] >= 1 /\ \A i \in 1..(n-1) : s[i] >= s[i+1] }

\* ---------------------------------------------------------------- tensors

Tensor(dtype, shape, d) == [dtype |-> dtype, shape |-> shape, d |-> d]

Rows(t) == t.shape[1]

Cols(t) == Prod(Tail(t.shape))

\* Number of entries of d for a tensor of the given shape.
DiagLen(shape) ==
    IF Len(shape) = 1 THEN shape[1] ELSE Min2(shape[1], Prod(Tail(shape)))

\* d cut or zero-padded to length n.
Fit(d, n) == The({ [i \in 1..n |-> IF i <= Len(x) THEN x[i] ELSE 0] : x \in {d} })

\* t.float(): the same values at single precision.
Float(t) == [t EXCEPT !.dtype = "float32"]

\* t.half(): the entries of the model are small integers, exact at half
\* precision.
Half(t) == [t EXCEPT !.dtype = "float16"]

\* t.reshape(shape) between shapes with the same first dimension and the
\* same number of elements: the matrix t.reshape(shape[1], -1) is the same.
Reshape(t, shape) ==
    The({ [x EXCEPT !.shape = shape, !.d = Fit(x.d, DiagLen(shape))] : x \in {t} })

\* a + b, elementwise.
TAdd(a, b) ==
    The({ [x EXCEPT !.d = [i \in 1..Len(x.d) |-> x.d[i] + y.d[i]]] : x \in {a}, y \in {b} })

\* a - b, elementwise.
TSub(a, b) ==
    The({ [x EXCEPT !.d = [i \in 1..Len(x.d) |-> x.d[i] - y.d[i]]] : x \in {a}, y \in {b} })

\* a * s for a scalar s.
TScale(a, s) == The({ [x EXCEPT !.d = [i \in 1..Len(x.d) |-> x.d[i] * s]] : x \in {a} })

\* a @ b for diagonal matrices a (m x r) and b (r x n).
MatMul(a, b) ==
    The({ Tensor(x.dtype, <<Rows(x), Cols(y)>>,
                 [i \in 1..Min2(Rows(x), Cols(y)) |->
                     IF i <= Cols(x) THEN x.d[i] * y.d[i] ELSE 0]) :
          x \in {a}, y \in {b} })

\* torch.max(torch.abs(t)).
MaxAbs(t) == The({ SeqMax([i \in 1..Len(x.d) |-> Abs(x.d[i])]) : x \in {t} })

\* linalg.svd of a diagonal matrix with a non-negative descending diagonal:
\* the singular values are the diagonal, U and Vh are identities.
Svd(weight) == weight.d

\* -------------------------------------------------- rank selection (4.1)

\* A mode parameter: an integer for 'fixed' and 'threshold', the numerator
\* n of n / RatioDen for 'ratio', 'quantile' and 'percentile'.
Modes == {"fixed", "threshold", "ratio", "quantile", "percentile", "energy"}

\* The assert of the mode's branch (lines 42, 45, 49 and 87, 90, 94).
ModeParamOk(mode, mode_param) ==
    CASE mode = "threshold" -> mode_param >= 0
      [] mode \in {"ratio", "quantile", "percentile"} ->
            RatioDen >= mode_param /\ mode_param >= 0
      [] OTHER -> TRUE

\* torch.sum(S > mode_param).
ThresholdRank(S, mode_param) ==
    Cardinality({i \in 1..Len(S) : S[i] > mode_param})

RatioRankGe(S, mode_param) ==
    Cardinality({i \in 1..Len(S) : S[i] * RatioDen >= SeqMax(S) * mode_param})

\* min_s = torch.max(S) * mode_param; torch.sum(S > min_s).
RatioRank(S, mode_param) ==
    Cardinality({i \in 1..Len(S) : S[i] * RatioDen > SeqMax(S) * mode_param})

\* s_cum = torch.cumsum(S); min_cum_sum = mode_param * torch.sum(S);
\* torch.sum(s_cum < min_cum_sum).
QuantileRank(S, mode_param) ==
    Cardinality({i \in 1..Len(S) :
        SeqSum(SubSeq(S, 1, i)) * RatioDen < mode_param * SeqSum(S)})

\* The if / elif chain on mode, before the clamp.
RawRank(S, mode, mode_param) ==
    CASE mode = "fixed" -> mode_param
      [] mode = "threshold" -> ThresholdRank(S, mode_param)
      [] mode = "ratio" -> RatioRank(S, mode_param)
      [] mode \in {"quantile", "percentile"} -> QuantileRank(S, mode_param)

\* lora_rank = max(1, lora_rank); lora_rank = min(out_ch, in_ch, lora_rank).
ClampRank(raw, out_ch, in_ch) == Min2(Min2(out_ch, in_ch), Max2(1, raw))

IsFullIntDiv(lora_rank, out_ch) == lora_rank >= out_ch \div 2

\* lora_rank >= out_ch/2, a true division.
IsFull(lora_rank, out_ch) == 2 * lora_rank >= out_ch

\* The low-rank factors and the residual of a weight with spectrum S:
\* U[:, :r] @ diag(S[:r]), Vh[:r, :], weight - U @ Vh.
LowRank(weight, S, lora_rank, a_shape, b_shape) ==
    LET up   == Tensor(weight.dtype, b_shape,
                       Fit(SubSeq(S, 1, lora_rank), DiagLen(b_shape)))
        down == Tensor(weight.dtype, a_shape,
                       [i \in 1..DiagLen(a_shape) |-> 1])
        diff == [weight EXCEPT !.d =
                    [i \in 1..Len(weight.d) |->
                        IF i <= lora_rank THEN 0 ELSE weight.d[i]]]
    IN  [kind |-> "low rank", A |-> down, B |-> up, diff |-> diff,
         rank |-> lora_rank]

FullResult(weight, lora_rank) ==
    [kind |-> "full", weight |-> weight, rank |-> lora_rank]

Raised(what) == [kind |-> "raised", error |-> what]

\* extract_linear(weight, mode, mode_param, device).
extract_linear(weight0, mode, mode_param) ==
    The({ LET out_ch == weight.shape[1]
              in_ch  == weight.shape[2]
              S      == Svd(weight)
          IN  IF mode \notin {"fixed", "threshold", "ratio", "quantile", "percentile"}
              THEN Raised("NotImplementedError")
              ELSE IF ~ModeParamOk(mode, mode_param)
              THEN Raised("AssertionError")
              ELSE The({ IF IsFull(lora_rank, out_ch)
                         THEN FullResult(weight, lora_rank)
                         ELSE LowRank(weight, S, lora_rank,
                                      <<lora_rank, in_ch>>, <<out_ch, lora_rank>>) :
                         lora_rank \in {ClampRank(RawRank(S, mode, mode_param),
                                                  out_ch, in_ch)} }) :
          weight \in {Float(weight0)} })

\* extract_conv(weight, mode, mode_param, device, is_cp).
extract_conv(weight0, mode, mode_param, is_cp) ==
    The({ LET out_ch == weight.shape[1]
              in_ch  == weight.shape[2]
              kernel_size == weight.shape[3]
              S      == Svd(weight)
          IN  IF mode \notin {"fixed", "threshold", "ratio", "quantile", "percentile"}
              THEN Raised("NotImplementedError")
              ELSE IF ~ModeParamOk(mode, mode_param)
              THEN Raised("AssertionError")
              ELSE The({ IF IsFull(lora_rank, out_ch) /\ ~is_cp
                         THEN FullResult(weight, lora_rank)
                         ELSE LowRank(weight, S, lora_rank,
                                      <<lora_rank, in_ch, kernel_size, kernel_size>>,
                                      <<out_ch, lora_rank, 1, 1>>) :
                         lora_rank \in {ClampRank(RawRank(S, mode, mode_param),
                                                  out_ch, in_ch)} }) :
          weight \in {Float(weight0)} })

\* ------------------------------------------------- the factorized state

\* The state is a function from keys to tensors; the key name + suffix is
\* the pair <<name, suffix>> (a flat name holds no '.', so the pair and the
\* string determine each other).
Has(sd, name, suffix) == <<name, suffix>> \in DOMAIN sd

\* sd.get(name + suffix, None).
Get(sd, name, suffix) == IF Has(sd, name, suffix) THEN sd[<<name, suffix>>] ELSE None

\* sd[name + suffix] = v.
Put(sd, name, suffix, v) ==
    The({ [k \in DOMAIN x \cup {<<name, suffix>>} |->
              IF k = <<name, suffix>> THEN y ELSE x[k]] : x \in {sd}, y \in {v} })

\* a | b on dicts: b's binding wins.
DictUnion(a, b) ==
    The({ [k \in DOMAIN x \cup DOMAIN y |-> IF k \in DOMAIN y THEN y[k] ELSE x[k]] :
          x \in {a}, y \in {b} })

\* get_module(lyco_state_dict, lora_name): the kind and its tensors.
get_module(sd, n) ==
    IF Has(sd, n, ".lora_up.weight")
    THEN [type |-> "locon", up |-> sd[<<n, ".lora_up.weight">>],
          down |-> sd[<<n, ".lora_down.weight">>],
          mid |-> Get(sd, n, ".lora_mid.weight"), alpha |-> Get(sd, n, ".alpha")]
    ELSE IF Has(sd, n, ".hada_w1_a")
    THEN [type |-> "hada", w1a |-> sd[<<n, ".hada_w1_a">>], w1b |-> sd[<<n, ".hada_w1_b">>],
          w2a |-> sd[<<n, ".hada_w2_a">>], w2b |-> sd[<<n, ".hada_w2_b">>],
          t1 |-> Get(sd, n, ".hada_t1"), t2 |-> Get(sd, n, ".hada_t2"),
          alpha |-> Get(sd, n, ".alpha")]
    ELSE IF Has(sd, n, ".weight")
    THEN [type |-> "ia3", weight |-> sd[<<n, ".weight">>],
          on_input |-> Get(sd, n, ".on_input")]
    ELSE IF Has(sd, n, ".lokr_w1") \/ Has(sd, n, ".lokr_w1_a")
    THEN [type |-> "kron", w1 |-> Get(sd, n, ".lokr_w1"), w1a |-> Get(sd, n, ".lokr_w1_a"),
          w1b |-> Get(sd, n, ".lokr_w1_b"), w2 |-> Get(sd, n, ".lokr_w2"),
          w2a |-> Get(sd, n, ".lokr_w2_a"), w2b |-> Get(sd, n, ".lokr_w2_b"),
          t1 |-> Get(sd, n, ".lokr_t1"), t2 |-> Get(sd, n, ".lokr_t2"),
          alpha |-> Get(sd, n, ".alpha")]
    ELSE IF Has(sd, n, ".diff")
    THEN [type |-> "full", diff |-> sd[<<n, ".diff">>], diff_b |-> Get(sd, n, ".diff_b")]
    ELSE IF Has(sd, n, ".w_norm")
    THEN [type |-> "norm", w_norm |-> sd[<<n, ".w_norm">>], b_norm |-> Get(sd, n, ".b_norm")]
    ELSE [type |-> "None"]

\* -------------------------------------------------- reconstruction (4.5)

Numel(t) == Prod(t.shape)

\* t * (num / den) for a scale that alpha / rank has made a fraction; the
\* states the model draws keep the division exact.
TScaleFrac(t, num, den) ==
    The({ [x EXCEPT !.d = [i \in 1..Len(x.d) |-> (x.d[i] * n) \div m]] :
          x \in {t}, n \in {num}, m \in {den} })

\* a * b, elementwise.
TMul(a, b) ==
    The({ [x EXCEPT !.d = [i \in 1..Len(x.d) |->
              IF i <= Len(y.d) THEN x.d[i] * y.d[i] ELSE 0]] : x \in {a}, y \in {b} })

\* The value of a one-element tensor.
Item(t) == t.d[1]

\* cp_weight_from_conv(up, down, mid): up and down as matrices around mid.
cp_weight_from_conv(up, down, mid) ==
    The({ Tensor(u.dtype, <<u.shape[1], w.shape[2], m.shape[3], m.shape[4]>>,
                 [i \in 1..DiagLen(<<u.shape[1], w.shape[2], m.shape[3], m.shape[4]>>) |->
                     IF i <= Len(u.d) /\ i <= Len(w.d) /\ i <= Len(m.d)
                     THEN u.d[i] * m.d[i] * w.d[i] ELSE 0]) :
          u \in {up}, w \in {down}, m \in {mid} })

\* The outcome of rebuild_weight: the pair it returns, or what it raises.
Rebuilt(merged, merged_bias) ==
    [kind |-> "ok", merged |-> merged, merged_bias |-> merged_bias]

\* orig_weight + rebuild.reshape(orig_weight.shape) * scale, with scale the
\* fraction num / den; reshape raises when the element counts differ.
AddRebuild(orig_weight, orig_bias, rebuild, num, den) ==
    The({ IF Numel(r) # Numel(orig_weight)
          THEN Raised("RuntimeError")
          ELSE Rebuilt(TAdd(orig_weight,
                            TScaleFrac(Reshape(r, orig_weight.shape), num, den)),
                       orig_bias) : r \in {rebuild} })

\* The 'locon' branch (lines 369 to 378).
RebuildLocon(p, orig_weight, orig_bias, scale) ==
    LET num == IF p.alpha # None THEN scale * Item(p.alpha) ELSE scale
        den == IF p.alpha # None THEN p.up.shape[2] ELSE 1
        rebuild == IF p.mid # None
                   THEN cp_weight_from_conv(p.up, p.down, p.mid)
                   ELSE MatMul(Reshape(p.up, <<p.up.shape[1], Cols(p.up)>>),
                               Reshape(p.down, <<p.down.shape[1], Cols(p.down)>>))
    IN  AddRebuild(orig_weight, orig_bias, rebuild, num, den)

\* The 'hada' branch (lines 379 to 393), for factors without t1 and t2.
RebuildHada(p, orig_weight, orig_bias, scale) ==
    LET num == IF p.alpha # None THEN scale * Item(p.alpha) ELSE scale
        den == IF p.alpha # None THEN p.w1b.shape[1] ELSE 1
        rebuild == TMul(MatMul(p.w1a, p.w1b), MatMul(p.w2a, p.w2b))
    IN  AddRebuild(orig_weight, orig_bias, rebuild, num, den)

\* The 'ia3' branch (lines 394 to 399): weight scales the rows (or, with
\* on_input, the columns) of orig_weight.
RebuildIa3(p, orig_weight, orig_bias, scale) ==
    Rebuilt(TAdd(orig_weight, TScale(TMul(orig_weight, p.weight), scale)), orig_bias)

\* The 'full' branch (lines 420 to 426): params[1].reshape is evaluated
\* whenever orig_bias is not None, and raises on a None params[1].
RebuildFull(p, orig_weight, orig_bias, scale) ==
    IF Numel(p.diff) # Numel(orig_weight)
    THEN Raised("RuntimeError")
    ELSE LET rebuild == Reshape(p.diff, orig_weight.shape)
             merged  == TAdd(orig_weight, TScale(rebuild, scale))
         IN  IF orig_bias # None
             THEN IF p.diff_b = None
                  THEN Raised("AttributeError")
                  ELSE Rebuilt(merged,
                               TAdd(orig_bias,
                                    TScale(Reshape(p.diff_b, orig_bias.shape), scale)))
             ELSE Rebuilt(merged, orig_bias)

\* The 'norm' branch (lines 427 to 431): both reshapes are unconditional.
RebuildNorm(p, orig_weight, orig_bias, scale) ==
    IF p.b_norm = None \/ orig_bias = None
    THEN Raised("AttributeError")
    ELSE Rebuilt(TAdd(orig_weight, TScale(Reshape(p.w_norm, orig_weight.shape), scale)),
                 TAdd(orig_bias, TScale(Reshape(p.b_norm, orig_bias.shape), scale)))

\* bool(t) of a tensor or None: None is false, a one-element tensor is
\* true when non-zero, any other tensor raises (no truth value).
TruthRaises(t) == t # None /\ Numel(t) # 1

Truthy(t) == t # None /\ Item(t) # 0

\* torch.kron(w1, w2) of diagonal matrices, w2 square: again diagonal.
Kron(w1, w2) ==
    The({ Tensor(x.dtype, <<Rows(x) * Rows(y), Cols(x) * Cols(y)>>,
                 [j \in 1..DiagLen(<<Rows(x) * Rows(y), Cols(x) * Cols(y)>>) |->
                     IF (j - 1) \div Len(y.d) + 1 <= Len(x.d)
                     THEN x.d[(j - 1) \div Len(y.d) + 1] * y.d[((j - 1) % Len(y.d)) + 1]
                     ELSE 0]) : x \in {w1}, y \in {w2} })

\* The 'kron' branch (lines 400 to 419), for factors without t1 and t2.
RebuildKron(p, orig_weight, orig_bias, scale) ==
    LET rescale == p.alpha # None /\ (p.w1b # None \/ p.w2b # None)
    IN  IF rescale /\ TruthRaises(p.w1b)
        THEN Raised("RuntimeError")
        ELSE LET num == IF rescale THEN scale * Item(p.alpha) ELSE scale
                 den == IF ~rescale THEN 1
                        ELSE IF Truthy(p.w1b) THEN p.w1b.shape[1]
                        ELSE IF p.w2b = None THEN 0 ELSE p.w2b.shape[1]
                 w1  == IF p.w1a # None /\ p.w1b # None
                        THEN MatMul(p.w1a, p.w1b) ELSE p.w1
                 w2  == IF p.w2a # None /\ p.w2b # None
                        THEN MatMul(p.w2a, p.w2b) ELSE p.w2
             IN  IF den = 0 \/ w1 = None \/ w2 = None
                 THEN Raised("AttributeError")
                 ELSE AddRebuild(orig_weight, orig_bias, Kron(w1, w2), num, den)

\* rebuild_weight(module_type, params, orig_weight, orig_bias, scale); p is
\* get_module's pair, the kind in p.type.
rebuild_weight(p, orig_weight, orig_bias, scale) ==
    IF orig_weight = None
    THEN Rebuilt(orig_weight, orig_bias)
    ELSE CASE p.type = "locon" -> RebuildLocon(p, orig_weight, orig_bias, scale)
           [] p.type = "hada"  -> RebuildHada(p, orig_weight, orig_bias, scale)
           [] p.type = "ia3"   -> RebuildIa3(p, orig_weight, orig_bias, scale)
           [] p.type = "kron"  -> RebuildKron(p, orig_weight, orig_bias, scale)
           [] p.type = "full"  -> RebuildFull(p, orig_weight, orig_bias, scale)
           [] p.type = "norm"  -> RebuildNorm(p, orig_weight, orig_bias, scale)
           [] OTHER            -> Raised("NotImplementedError")

\* ------------------------------------------- decomposition of one weight

KernelSizes == {1, 3}

\* The weights handed to extract_linear: out_ch x in_ch, diagonal, with a
\* descending spectrum.
LinearWeights ==
    UNION { { Tensor("float32", <<o, i>>, S) : S \in DescSeqs(Min2(o, i), MaxSV) } :
            o \in 1..MaxCh, i \in 1..MaxCh }

\* The weights handed to extract_conv: out_ch x in_ch x k x k.
ConvWeights ==
    UNION { { Tensor("float32", sh, S) : S \in DescSeqs(DiagLen(sh), MaxSV) } :
            sh \in { <<o, i, k, k>> : o \in 1..MaxCh, i \in 1..MaxCh, k \in KernelSizes } }

\* The (mode, mode_param) pairs drawn, the out-of-range ones included.
ModeArgs ==
    ({"fixed"} \X (0..(MaxCh + 1)))
    \cup ({"threshold"} \X ((0 - 1)..MaxSV))
    \cup ({"ratio", "quantile", "percentile"} \X (0..(RatioDen + 1)))
    \cup ({"energy"} \X {0})

RankCalls ==
    { [fn |-> "extract_linear", weight |-> w, mode |-> m[1], mode_param |-> m[2],
       is_cp |-> FALSE] : w \in LinearWeights, m \in ModeArgs }
    \cup
    { [fn |-> "extract_conv", weight |-> w, mode |-> m[1], mode_param |-> m[2],
       is_cp |-> cp] : w \in ConvWeights, m \in ModeArgs, cp \in BOOLEAN }

InitRank ==
    /\ pc = "call"
    /\ call \in RankCalls
    /\ ret = None
    /\ base_model = <<>>
    /\ db_model = <<>>
    /\ lyco_state_dict = <<>>
    /\ log = {}

ExtractLinear ==
    /\ pc = "call"
    /\ call.fn = "extract_linear"
    /\ ret' = extract_linear(call.weight, call.mode, call.mode_param)
    /\ pc' = "done"
    /\ UNCHANGED <<call, base_model, db_model, lyco_state_dict, log>>

ExtractConv ==
    /\ pc = "call"
    /\ call.fn = "extract_conv"
    /\ ret' = extract_conv(call.weight, call.mode, call.mode_param, call.is_cp)
    /\ pc' = "done"
    /\ UNCHANGED <<call, base_model, db_model, lyco_state_dict, log>>

NextRank == ExtractLinear \/ ExtractConv

SpecRank == InitRank /\ [][NextRank]_vars

\* ----------------------------------------------- claims on rank selection

\* A decomposition call has returned a result (it did not raise).
Decomposed ==
    /\ pc = "done"
    /\ call.fn \in {"extract_linear", "extract_conv"}
    /\ ret.kind \in {"full", "low rank"}

\* The rank the call's mode selects, clamped to [1, min(out_ch, in_ch)].
ClampedOf(raw) ==
    LET lim == Min2(call.weight.shape[1], call.weight.shape[2])
    IN  IF raw < 1 THEN 1 ELSE IF raw > lim THEN lim ELSE raw

\* C5: full fallback. In extract_linear, and in extract_conv without is_cp,
\* a clamped rank of at least out_ch/2 gives 'full' with the input tensor
\* unchanged; a clamped rank below out_ch/2, or is_cp, gives 'low rank'
\* with factors of exactly that rank.
FullFallback ==
    Decomposed =>
        LET r == ClampedOf(RawRank(call.weight.d, call.mode, call.mode_param))
            out_ch == call.weight.shape[1]
        IN  IF 2 * r >= out_ch /\ ~call.is_cp
            THEN /\ ret.kind = "full"
                 /\ ret.weight.shape = call.weight.shape
                 /\ ret.weight.d = call.weight.d
            ELSE /\ ret.kind = "low rank"
                 /\ ret.A.shape[1] = r
                 /\ ret.B.shape[2] = r
                 /\ ret.B.shape[1] = out_ch
                 /\ Len(ret.B.d) = r

\* C5 witness: a call with an odd out_ch fell back to 'full' at a rank that
\* an integer half would not separate, and another shape stays low rank.
FullFallbackWitness ==
    /\ Decomposed
    /\ call.fn = "extract_conv"
    /\ ~call.is_cp
    /\ call.weight.shape[1] = 3
    /\ ret.kind = "full"
    /\ ret.rank = 2
    /\ ret.weight.d = call.weight.d
    /\ ret.weight.d[1] > 0

\* The length of the smallest prefix of S whose sum reaches num / RatioDen
\* of the sum of S.
SmallestPrefix(S, num) ==
    CHOOSE n \in 0..Len(S) :
        /\ SeqSum(SubSeq(S, 1, n)) * RatioDen >= num * SeqSum(S)
        /\ \A m \in 0..(n - 1) :
              SeqSum(SubSeq(S, 1, m)) * RatioDen < num * SeqSum(S)

\* C6: quantile / percentile. The selected rank is the length of the
\* smallest prefix of S whose cumulative sum reaches q x sum(S), clamped.
QuantilePrefix ==
    (Decomposed /\ call.mode \in {"quantile", "percentile"}) =>
        ret.rank = ClampedOf(SmallestPrefix(call.weight.d, call.mode_param))

\* C7 as stated: the selected rank is the number of singular values that
\* are >= p x max(S), clamped.
RatioAtLeast ==
    (Decomposed /\ call.mode = "ratio") =>
        ret.rank = ClampedOf(Cardinality(
            {i \in 1..Len(call.weight.d) :
                call.weight.d[i] * RatioDen >= SeqMax(call.weight.d) * call.mode_param}))

\* C7 amended: the selected rank is the number of singular values that are
\* strictly greater than p x max(S), clamped to [1, min(out_ch, in_ch)].
RatioStrict ==
    (Decomposed /\ call.mode = "ratio") =>
        ret.rank = ClampedOf(Cardinality(
            {i \in 1..Len(call.weight.d) :
                call.weight.d[i] * RatioDen > SeqMax(call.weight.d) * call.mode_param}))

\* C7 witness: ratio = 1/2 on a spectrum with a value at exactly half the
\* maximum, which the selected rank leaves out.
RatioStrictWitness ==
    /\ Decomposed
    /\ call.mode = "ratio"
    /\ 2 * call.mode_param = RatioDen
    /\ call.weight.shape = <<3, 3>>
    /\ call.weight.d = <<2, 1, 0>>
    /\ ret.rank = 1

\* ------------------------------------------------ reconstruction of one layer

Scales == ((0 - 1)..MaxScale) \ {0}

\* The base weights drawn: 2 x 2 Linear and 2 x 2 x 1 x 1 Conv2d weights.
BaseWeights ==
    { Tensor("float32", sh, d) : sh \in {<<2, 2>>, <<2, 2, 1, 1>>}, d \in [1..2 -> 0..MaxW] }

\* A bias of n entries, or no bias.
Biases(n) == {None} \cup { Tensor("float32", <<n>>, d) : d \in [1..n -> 0..MaxW] }

Deltas(sh) == { Tensor("float32", sh, d) : d \in [1..DiagLen(sh) -> 0..MaxSV] }

Scalar(x) == Tensor("float32", <<1>>, <<x>>)

FullParams ==
    { [type |-> "full", diff |-> d, diff_b |-> b] :
        d \in Deltas(<<2, 2>>), b \in {None} \cup Deltas(<<2>>) }

NormParams ==
    { [type |-> "norm", w_norm |-> d, b_norm |-> b] :
        d \in Deltas(<<2, 2>>), b \in {None, Tensor("float32", <<2>>, <<1, 0>>)} }

LoconParams ==
    { [type |-> "locon", up |-> Tensor("float32", <<2, 1>>, <<u>>),
       down |-> Tensor("float32", <<1, 2>>, <<1>>), mid |-> None, alpha |-> a] :
        u \in 1..MaxSV, a \in {None, Scalar(1), Scalar(2)} }

HadaParams ==
    { [type |-> "hada", w1a |-> Tensor("float32", <<2, 1>>, <<u>>),
       w1b |-> Tensor("float32", <<1, 2>>, <<1>>),
       w2a |-> Tensor("float32", <<2, 1>>, <<v>>),
       w2b |-> Tensor("float32", <<1, 2>>, <<1>>),
       t1 |-> None, t2 |-> None, alpha |-> a] :
        u \in 1..MaxSV, v \in 1..MaxSV, a \in {None, Scalar(1)} }

Ia3Params ==
    { [type |-> "ia3", weight |-> Tensor("float32", <<2>>, d), on_input |-> None] :
        d \in [1..2 -> 0..1] }

KronParams ==
    { [type |-> "kron", w1 |-> Tensor("float32", <<1, 1>>, <<u>>), w1a |-> None,
       w1b |-> None, w2 |-> Tensor("float32", <<2, 2>>, d), w2a |-> None, w2b |-> None,
       t1 |-> None, t2 |-> None, alpha |-> a] :
        u \in 1..MaxSV, d \in [1..2 -> 0..1], a \in {None, Scalar(1)} }

RebuildCalls ==
    { c \in [fn : {"rebuild_weight"},
             p : FullParams \cup NormParams \cup LoconParams \cup HadaParams
                 \cup Ia3Params \cup KronParams \cup {[type |-> "None"]},
             orig_weight : BaseWeights \cup {None},
             orig_bias : Biases(2),
             scale : Scales] :
        \* the 'ia3' draws are on Linear weights
        c.p.type = "ia3" /\ c.orig_weight # None => Len(c.orig_weight.shape) = 2 }

InitRebuild ==
    /\ pc = "call"
    /\ call \in RebuildCalls
    /\ ret = None
    /\ base_model = <<>>
    /\ db_model = <<>>
    /\ lyco_state_dict = <<>>
    /\ log = {}

RebuildWeight ==
    /\ pc = "call"
    /\ call.fn = "rebuild_weight"
    /\ ret' = rebuild_weight(call.p, call.orig_weight, call.orig_bias, call.scale)
    /\ pc' = "done"
    /\ UNCHANGED <<call, base_model, db_model, lyco_state_dict, log>>

NextRebuild == RebuildWeight

SpecRebuild == InitRebuild /\ [][NextRebuild]_vars

\* C10: 'full' reconstruction with an optional bias diff. With W present
\* the weight returned is W + s x diff; the bias returned is b + s x diff_b
\* when diff_b is present, and b unchanged, without raising, when diff_b is
\* absent, whether or not the layer has a bias.
FullOptionalBias ==
    (/\ pc = "done"
     /\ call.fn = "rebuild_weight"
     /\ call.p.type = "full"
     /\ call.orig_weight # None) =>
        /\ ret.kind = "ok"
        /\ ret.merged.d = [i \in 1..2 |->
              call.orig_weight.d[i] + call.scale * call.p.diff.d[i]]
        /\ (call.p.diff_b = None => ret.merged_bias = call.orig_bias)
        /\ (call.p.diff_b # None /\ call.orig_bias # None =>
              ret.merged_bias.d = [i \in 1..2 |->
                  call.orig_bias.d[i] + call.scale * call.p.diff_b.d[i]])

\* ------------------------------------------------------------ module trees

\* A module is [name, cls, weight, bias]; a model is the list that
\* named_modules() yields: depth first, parent before children, the root
\* first under the name ''.
Module(name, cls, weight, bias) ==
    [name |-> name, cls |-> cls, weight |-> weight, bias |-> bias]

Container(name, cls) == Module(name, cls, None, None)

\* The dotted string of a module path as its list of segments; '' is one
\* empty segment.
Segs(path) == IF path = <<>> THEN << <<"">> >> ELSE path

RECURSIVE Concat(_)
Concat(ss) == IF ss = <<>> THEN <<>> ELSE Head(ss) \o Concat(Tail(ss))

\* str.replace('.', '_') on a dotted string: the words of its segments.
ReplaceDots(segs) == Concat(segs)

IsPrefix(p, q) == Len(p) <= Len(q) /\ SubSeq(q, 1, Len(p)) = p

\* The name, relative to the module at path p, of its descendant at path q.
ChildName(p, q) == SubSeq(q, Len(p) + 1, Len(q))

\* The elements of a set of numbers in ascending order.
Ascending(S) ==
    [k \in 1..Cardinality(S) |->
        CHOOSE x \in S : Cardinality({y \in S : y < x}) = k - 1]

IsLayer(m) == m.cls \in {"Linear", "Conv2d"}

UNET_TARGET_REPLACE_MODULE ==
    {"Transformer2DModel", "Attention", "ResnetBlock2D", "Downsample2D", "Upsample2D"}

UNET_TARGET_REPLACE_NAME ==
    { << <<"conv", "in">> >>, << <<"conv", "out">> >>,
      << <<"time", "embedding">>, <<"linear", "1">> >>,
      << <<"time", "embedding">>, <<"linear", "2">> >> }

TEXT_ENCODER_TARGET_REPLACE_MODULE == {"CLIPAttention", "CLIPMLP"}

LORA_PREFIX_UNET == << <<"lora", "unet">> >>

LORA_PREFIX_TEXT_ENCODER == << <<"lora", "te">> >>

LORA_PREFIX_TEXT_ENCODER1 == << <<"lora", "te1">> >>

LORA_PREFIX_TEXT_ENCODER2 == << <<"lora", "te2">> >>

\* ------------------------------------------------------ extraction (4.3)

\* torch.allclose(a, b) at its default rtol = 1e-5 and atol = 1e-8:
\* |a - b| <= atol + rtol * |b| for every entry, scaled by 1e8.
AllClose(a, b) ==
    \A i \in 1..Len(a.d) : 100000000 * Abs(a.d[i] - b.d[i]) <= 1 + 1000 * Abs(b.d[i])

\* t.transpose(0, 1) of a diagonal tensor.
Transpose01(t) ==
    [t EXCEPT !.shape = <<t.shape[2], t.shape[1]>> \o SubSeq(t.shape, 3, Len(t.shape))]

\* make_sparse(t, sparsity).to_sparse().coalesce() for sparsity 0 and 1,
\* where np.quantile is the least and the greatest absolute value: the
\* diagonal positions kept (those not below the quantile and not zero).
SparseKept(t, sparsity) ==
    LET all  == Fit(t.d, Numel(t))
        quan == IF sparsity = 0
                THEN (IF Numel(t) > Len(t.d) THEN 0 ELSE 0 - SeqMax([i \in 1..Len(t.d) |-> 0 - Abs(t.d[i])]))
                ELSE MaxAbs(t)
    IN  Ascending({i \in 1..Len(t.d) : Abs(t.d[i]) >= quan /\ t.d[i] # 0})

\* lora_name of extract_lora (lines 150, 151).
LoraName(prefix, name, child_name) ==
    ReplaceDots(prefix \o Segs(name) \o (IF child_name # <<>> THEN Segs(child_name) ELSE <<>>))

\* The keys extract_lora writes for a low-rank result (lines 200 to 213).
PutLowRank(loras, lora_name, extract_a, extract_b, diff, a) ==
    LET l1 == Put(loras, lora_name, ".lora_down.weight", Half(extract_a))
        l2 == Put(l1, lora_name, ".lora_up.weight", Half(extract_b))
        l3 == Put(l2, lora_name, ".alpha",
                  Tensor("float16", <<1>>, <<extract_a.shape[1]>>))
    IN  IF ~a.use_bias THEN l3
        ELSE The({ The({ Put(Put(Put(l3, lora_name, ".bias_indices",
                                     Tensor("int16", <<2, Len(kept)>>,
                                            [i \in 1..Len(kept) |-> kept[i] - 1])),
                                 lora_name, ".bias_values",
                                 Tensor("float16", <<Len(kept)>>,
                                        [i \in 1..Len(kept) |-> d2.d[kept[i]]])),
                             lora_name, ".bias_size", Tensor("int16", <<2>>, d2.shape)) :
                         kept \in {SparseKept(d2, a.sparsity)} }) :
                   d2 \in {Reshape(diff, <<extract_b.shape[1],
                                           Numel(diff) \div extract_b.shape[1]>>)} })

\* The extraction state threaded through the walk: the mapping built so
\* far, the layers that wrote entries (a record kept for the claims, not
\* program state) and the exception raised, if any.
ExtState(loras, emitted, err) == [loras |-> loras, emitted |-> emitted, err |-> err]

\* The small_conv branch of extract_lora (lines 184 to 198): the second
\* decomposition, of the first one's down factor.
SmallConv(st, lora_name, root_weight, first, entry, a) ==
    The({ LET extract_c == Transpose01(second.A)
              extract_a == Transpose01(second.B)
              l0        == Put(st.loras, lora_name, ".lora_mid.weight", Half(extract_c))
              rest      == TSub(root_weight,
                                Reshape(cp_weight_from_conv(first.B, extract_a, extract_c),
                                        root_weight.shape))
          IN  ExtState(PutLowRank(l0, lora_name, extract_a, first.B, rest, a),
                       st.emitted \cup {entry}, st.err) :
          second \in {extract_conv(Transpose01(first.A), "fixed", first.A.shape[1], TRUE)} })

\* The decomposition extract_lora asks for (lines 162 to 183).
FirstExtract(module, diff, a) ==
    IF module.cls = "Linear"
    THEN extract_linear(diff, a.mode, a.linear_mode_param)
    ELSE extract_conv(diff, a.mode,
                      IF module.weight.shape[3] = 1 /\ module.weight.shape[4] = 1
                      THEN a.linear_mode_param ELSE a.conv_mode_param, FALSE)

\* extract_lora(prefix, module, child_module, name, child_name, loras,
\* min_diff); a holds extract_diff's arguments, slot the bundle index.
extract_lora(st, slot, prefix, module, child_module, name, child_name, min_diff, a) ==
    LET lora_name   == LoraName(prefix, name, child_name)
        root_weight == module.weight
        is_linear   == root_weight.shape[3] = 1 /\ root_weight.shape[4] = 1
        entry(kind) == [slot |-> slot, path |-> name \o child_name,
                        lora_name |-> lora_name, kind |-> kind]
    IN  IF AllClose(root_weight, child_module.weight) THEN st
        ELSE The({
            IF min_diff > 0 /\ min_diff > MaxAbs(diff) THEN st
            ELSE The({
                IF first.kind = "raised" THEN [st EXCEPT !.err = first]
                ELSE IF first.kind = "full"
                THEN ExtState(Put(st.loras, lora_name, ".diff", Half(first.weight)),
                              st.emitted \cup {entry("full")}, st.err)
                ELSE IF module.cls = "Conv2d" /\ a.small_conv /\ ~is_linear
                THEN SmallConv(st, lora_name, root_weight, first, entry("low rank"), a)
                ELSE ExtState(PutLowRank(st.loras, lora_name, first.A, first.B,
                                         first.diff, a),
                              st.emitted \cup {entry("low rank")}, st.err) :
                first \in {FirstExtract(module, diff, a)} }) :
            diff \in {TSub(root_weight, child_module.weight)} })

\* -------------------------------------------------- the walker (4.4)

\* The index in model of the module named name, 0 when there is none.
IndexOf(model, name) ==
    IF \E i \in 1..Len(model) : model[i].name = name
    THEN CHOOSE i \in 1..Len(model) : model[i].name = name
    ELSE 0

\* module.named_modules() of the module at index i, cut to the Linear and
\* Conv2d modules: the indices of the layers among the module and its
\* descendants, in order.
LayersUnder(model, i) ==
    Ascending({c \in 1..Len(model) :
        IsPrefix(model[i].name, model[c].name) /\ IsLayer(model[c])})

\* The first loop of make_state_dict (lines 231 to 239): the names kept in
\* temp and in temp_name.
InTemp(root_module, name, target_replace_modules) ==
    IndexOf(root_module, name) # 0
    /\ root_module[IndexOf(root_module, name)].cls \in target_replace_modules

InTempName(root_module, name, target_replace_modules, target_replace_names) ==
    /\ IndexOf(root_module, name) # 0
    /\ root_module[IndexOf(root_module, name)].cls \notin target_replace_modules
    /\ name \in target_replace_names

\* The calls of extract_lora that the second loop of make_state_dict makes
\* (lines 240 to 253), in order: [module, name, child_name], module an
\* index of target_module.
ExtractVisitsAt(root_module, target_module, i, target_replace_modules, target_replace_names) ==
    LET name == target_module[i].name
        hits == LayersUnder(target_module, i)
    IN  IF InTemp(root_module, name, target_replace_modules)
        THEN [k \in 1..Len(hits) |->
                 [module |-> hits[k], name |-> name,
                  child_name |-> ChildName(name, target_module[hits[k]].name)]]
        ELSE IF InTempName(root_module, name, target_replace_modules, target_replace_names)
                /\ IsLayer(target_module[i])
        THEN << [module |-> i, name |-> name, child_name |-> <<>>] >>
        ELSE <<>>

ExtractVisits(root_module, target_module, target_replace_modules, target_replace_names) ==
    Concat([i \in 1..Len(target_module) |->
        ExtractVisitsAt(root_module, target_module, i,
                        target_replace_modules, target_replace_names)])

\* The second loop, call by call; an exception ends it.
RECURSIVE ExtractAll(_, _, _, _, _, _, _, _)
ExtractAll(st0, visits, slot, prefix, root_module, target_module, min_diff, a) ==
    The({ IF visits = <<>> \/ st.err # None THEN st
          ELSE The({ ExtractAll(
                         \* temp[name][child_name], or temp_name[name]
                         IF b = 0 \/ ~IsLayer(root_module[b])
                         THEN [st EXCEPT !.err = Raised("KeyError")]
                         ELSE extract_lora(st, slot, prefix, target_module[v.module],
                                           root_module[b], v.name, v.child_name,
                                           min_diff, a),
                         Tail(visits), slot, prefix, root_module, target_module,
                         min_diff, a) :
                     v \in {Head(visits)},
                     b \in {IndexOf(root_module, target_module[Head(visits).module].name)} }) :
          st \in {st0} })

\* make_state_dict(prefix, root_module, target_module,
\* target_replace_modules, target_replace_names, min_diff): loras, with the
\* layers that wrote it and the exception raised, if any.
make_state_dict(slot, prefix, root_module, target_module, target_replace_modules, target_replace_names, min_diff, a) ==
    ExtractAll(ExtState(<<>>, {}, None),
               ExtractVisits(root_module, target_module,
                             target_replace_modules, target_replace_names),
               slot, prefix, root_module, target_module, min_diff, a)

\* The min_diff of the U-Net call of make_state_dict (lines 291 to 296),
\* which passes none: the default of line 226.
UNetMinDiff(a) == 0

\* extract_diff(base_model, db_model, mode, linear_mode_param,
\* conv_mode_param, extract_device, use_bias, sparsity, small_conv,
\* min_diff), a the record of the arguments after the models.  Bundle
\* slot i of the source is element i + 1 here.
extract_diff(base, db, a) ==
    LET isxl  == Len(base) = 6
        unet  == IF isxl THEN 3 ELSE 2
    IN  The({ The({ The({ ExtState(DictUnion(DictUnion(te.loras, te2.loras), un.loras),
                                   te.emitted \cup te2.emitted \cup un.emitted, un.err) :
                          un \in { IF te2.err = None
                                   THEN make_state_dict(unet, LORA_PREFIX_UNET,
                                            base[unet + 1], db[unet + 1],
                                            UNET_TARGET_REPLACE_MODULE,
                                            UNET_TARGET_REPLACE_NAME, UNetMinDiff(a), a)
                                   ELSE ExtState(<<>>, {}, te2.err) } }) :
                    te2 \in { IF isxl /\ te.err = None
                              THEN make_state_dict(1, LORA_PREFIX_TEXT_ENCODER2,
                                       base[2], db[2],
                                       TEXT_ENCODER_TARGET_REPLACE_MODULE, {},
                                       a.min_diff, a)
                              ELSE ExtState(<<>>, {}, te.err) } }) :
              te \in { make_state_dict(0,
                           IF isxl THEN LORA_PREFIX_TEXT_ENCODER1
                           ELSE LORA_PREFIX_TEXT_ENCODER,
                           base[1], db[1], TEXT_ENCODER_TARGET_REPLACE_MODULE, {},
                           a.min_diff, a) } })

\* ------------------------------------------------------------ merge (4.6)

\* The conversion pass of merge (lines 501 to 505): every tensor of the
\* state is rebound to a float copy, or to a copy of the dtype of the
\* first parameter of base_model[0].
FirstParamDtype(model) ==
    model[CHOOSE i \in 1..Len(model) :
              /\ model[i].weight # None
              /\ \A j \in 1..(i - 1) : model[j].weight = None].weight.dtype

ConvertState(sd, device, base) ==
    The({ [k \in DOMAIN x |->
              IF device = "cpu" THEN Float(x[k])
              ELSE [x[k] EXCEPT !.dtype = FirstParamDtype(base[1])]] : x \in {sd} })

\* lora_name of merge_state_dict under a target class (lines 475, 476).
MergeLoraName(prefix, name, child_name) ==
    ReplaceDots(prefix \o Segs(name) \o Segs(child_name))

\* lora_name of merge_state_dict for a target name (lines 488, 489).
MergeLoraNameOfName(prefix, name) == ReplaceDots(prefix \o Segs(name))

\* The layers merge_state_dict reaches from the module at index i, in
\* order, each with the key it looks up (lines 471 to 476, 487 to 489).
MergeVisitsAt(root_module, prefix, i, target_replace_modules, target_replace_names) ==
    LET name == root_module[i].name
        hits == LayersUnder(root_module, i)
    IN  IF root_module[i].cls \in target_replace_modules
        THEN [k \in 1..Len(hits) |->
                 [module |-> hits[k],
                  lora_name |-> MergeLoraName(prefix, name,
                                    ChildName(name, root_module[hits[k]].name))]]
        ELSE IF name \in target_replace_names
        THEN << [module |-> i, lora_name |-> MergeLoraNameOfName(prefix, name)] >>
        ELSE <<>>

MergeVisits(root_module, prefix, target_replace_modules, target_replace_names) ==
    Concat([i \in 1..Len(root_module) |->
        MergeVisitsAt(root_module, prefix, i, target_replace_modules, target_replace_names)])

\* The merge state threaded through the walk: the model, the count of
\* merged modules, the exception raised (with the key it was raised at).
MergeState(model, merged, err) == [model |-> model, merged |-> merged, err |-> err]

\* One pass of the loop body (lines 478 to 486, 491 to 499).
MergeOne(st, v, sd, scale) ==
    The({ The({ IF r.kind = "raised"
                THEN [st EXCEPT !.err = [kind |-> "raised", error |-> r.error,
                                         at |-> v.lora_name]]
                ELSE MergeState(
                         [st.model EXCEPT ![v.module] =
                             [m EXCEPT !.weight = IF r.merged # None
                                                  THEN r.merged ELSE m.weight,
                                       !.bias = IF r.merged_bias # None
                                                THEN r.merged_bias ELSE m.bias]],
                         IF r.merged # None THEN st.merged + 1 ELSE st.merged,
                         st.err) :
                r \in {rebuild_weight(p, m.weight, m.bias, scale)} }) :
          m \in {st.model[v.module]}, p \in {get_module(sd, v.lora_name)} })

\* The loop, module by module; an exception ends it.
RECURSIVE MergeAll(_, _, _, _)
MergeAll(st0, visits, sd, scale) ==
    The({ IF visits = <<>> \/ st.err # None THEN st
          ELSE The({ MergeAll(MergeOne(st, v, sd, scale), Tail(visits), sd, scale) :
                     v \in {Head(visits)} }) :
          st \in {st0} })

\* merge_state_dict(prefix, root_module, lyco_state_dict,
\* target_replace_modules, target_replace_names).
merge_state_dict(merged, prefix, root_module, sd, target_replace_modules, target_replace_names, scale) ==
    MergeAll(MergeState(root_module, merged, None),
             MergeVisits(root_module, prefix, target_replace_modules, target_replace_names),
             sd, scale)

\* merge(base_model, lyco_state_dict, scale, device): the bundle, the
\* rebound state, the count and the exception raised, if any.
merge(base, sd0, scale, device) ==
    The({ The({ The({ [base_model |-> [base EXCEPT ![1] = te.model, ![3] = un.model],
                       lyco_state_dict |-> sd, merged |-> un.merged, err |-> un.err] :
                      un \in { IF te.err = None
                               THEN merge_state_dict(te.merged, LORA_PREFIX_UNET, base[3],
                                        sd, UNET_TARGET_REPLACE_MODULE,
                                        UNET_TARGET_REPLACE_NAME, scale)
                               ELSE MergeState(base[3], te.merged, te.err) } }) :
                te \in { merge_state_dict(0, LORA_PREFIX_TEXT_ENCODER, base[1], sd,
                             TEXT_ENCODER_TARGET_REPLACE_MODULE,
                             UNET_TARGET_REPLACE_NAME, scale) } }) :
          sd \in { ConvertState(sd0, device, base) } })

\* ------------------------------------------------------------- the models

Ones(n) == [i \in 1..n |-> 1]

Layer(name, cls, shape, has_bias) ==
    Module(name, cls, Tensor("float32", shape, Ones(DiagLen(shape))),
           IF has_bias THEN Tensor("float32", <<shape[1]>>, Ones(shape[1])) ELSE None)

\* A CLIP text encoder: one attention block with one projection.
TextEncoder ==
    << Container(<<>>, "CLIPTextModel"),
       Container(<< <<"self", "attn">> >>, "CLIPAttention"),
       Layer(<< <<"self", "attn">>, <<"q", "proj">> >>, "Linear", <<3, 3>>, TRUE) >>

\* A VAE: one residual block with one convolution.
Vae ==
    << Container(<<>>, "AutoencoderKL"),
       Container(<< <<"mid">> >>, "ResnetBlock2D"),
       Layer(<< <<"mid">>, <<"conv1">> >>, "Conv2d", <<2, 2, 1, 1>>, TRUE) >>

\* A U-Net whose attention sits inside a transformer block, both of target
\* classes, and a 3 x 3 input convolution found by name.
UNetNested ==
    << Container(<<>>, "UNet2DConditionModel"),
       Layer(<< <<"conv", "in">> >>, "Conv2d", <<3, 1, 3, 3>>, TRUE),
       Container(<< <<"mid">> >>, "Transformer2DModel"),
       Container(<< <<"mid">>, <<"attn">> >>, "Attention"),
       Layer(<< <<"mid">>, <<"attn">>, <<"to", "q">> >>, "Linear", <<3, 3>>, FALSE) >>

\* A U-Net with two blocks, a and a_b, whose children are b_c and c, and a
\* time embedding found by name.
UNetFlat ==
    << Container(<<>>, "UNet2DConditionModel"),
       Container(<< <<"a">> >>, "ResnetBlock2D"),
       Layer(<< <<"a">>, <<"b", "c">> >>, "Conv2d", <<3, 3, 1, 1>>, TRUE),
       Container(<< <<"a", "b">> >>, "Downsample2D"),
       Layer(<< <<"a", "b">>, <<"c">> >>, "Conv2d", <<2, 2, 1, 1>>, TRUE),
       Container(<< <<"time", "embedding">> >>, "TimestepEmbedding"),
       Layer(<< <<"time", "embedding">>, <<"linear", "1">> >>, "Linear", <<2, 2>>, TRUE) >>

UNets == {UNetNested, UNetFlat}

\* The bundles: (text encoder, VAE, U-Net), and for a dual text-encoder
\* model (text encoder 1, text encoder 2, VAE, U-Net, logit scale,
\* checkpoint info), the last two no modules.
BaseBundles ==
    { <<TextEncoder, Vae, u>> : u \in UNets }
    \cup { <<TextEncoder, TextEncoder, Vae, u, <<>>, <<>>>> : u \in UNets }

\* Weight difference k of a layer with n diagonal entries.
DiffOf(k, n) == [i \in 1..n |-> Max2(k - i + 1, 0)]

LayerIdx(model) == {i \in 1..Len(model) : IsLayer(model[i])}

\* The fine-tuned variants of a model: each layer's weight plus one of the
\* differences.
FineTuned(model) ==
    { [i \in 1..Len(model) |->
          IF i \in LayerIdx(model)
          THEN [model[i] EXCEPT !.weight.d =
                   [j \in 1..Len(model[i].weight.d) |->
                       model[i].weight.d[j] + DiffOf(f[i], Len(model[i].weight.d))[j]]]
          ELSE model[i]] : f \in [LayerIdx(model) -> 0..MaxDiff] }

\* The fine-tuned variants of a bundle; the VAE is the base's.
FineTunedBundles(base) ==
    IF Len(base) = 3
    THEN { <<t, base[2], u>> : t \in FineTuned(base[1]), u \in FineTuned(base[3]) }
    ELSE { <<t, t2, base[3], u, base[5], base[6]>> :
             t \in FineTuned(base[1]), t2 \in FineTuned(base[2]), u \in FineTuned(base[4]) }

\* The arguments of extract_diff that the model draws.
ExtractArgs ==
    { a \in [fn : {"extract_diff"}, mode : {"fixed", "ratio", "energy"},
             linear_mode_param : 1..2, conv_mode_param : {1},
             use_bias : BOOLEAN, sparsity : {0, 1}, small_conv : BOOLEAN,
             min_diff : {0, 2}] :
        ~a.use_bias => a.sparsity = 1 }

Devices == {"cpu", "cuda"}

Init ==
    /\ pc = "init"
    /\ call = None
    /\ ret = None
    /\ base_model \in BaseBundles
    /\ db_model \in FineTunedBundles(base_model)
    /\ lyco_state_dict = <<>>
    /\ log = {}

\* extract_diff on the two bundles; the mapping it returns becomes the
\* factorized state.
ExtractDiff ==
    /\ pc = "init"
    /\ \E a \in ExtractArgs :
          \E r \in {extract_diff(base_model, db_model, a)} :
              /\ call' = a
              /\ ret' = IF r.err = None THEN [kind |-> "ok"] ELSE r.err
              /\ lyco_state_dict' = IF r.err = None THEN r.loras ELSE lyco_state_dict
              /\ log' = r.emitted
    /\ pc' = "extracted"
    /\ UNCHANGED <<base_model, db_model>>

\* merge of the factorized state (the empty one before any extraction)
\* into the base bundle.
Merge ==
    /\ pc \in {"init", "extracted"}
    /\ ret.kind # "raised"
    /\ \E scale \in Scales, device \in Devices :
          \E r \in {merge(base_model, lyco_state_dict, scale, device)} :
              /\ call' = [fn |-> "merge", base_model |-> base_model,
                          lyco_state_dict |-> lyco_state_dict,
                          scale |-> scale, device |-> device]
              /\ ret' = IF r.err = None
                        THEN [kind |-> "ok", merged |-> r.merged] ELSE r.err
              /\ base_model' = r.base_model
              /\ lyco_state_dict' = r.lyco_state_dict
    /\ pc' = "merged"
    /\ UNCHANGED <<db_model, log>>

Next == ExtractDiff \/ Merge

Spec == Init /\ [][Next]_vars

\* ------------------------------------------------ claims on the pipelines

Range(s) == {s[i] : i \in DOMAIN s}

\* The layers the two merge_state_dict calls of merge reach in a bundle
\* (lines 507 to 520), each with its bundle slot, its index and path in the
\* component and the key looked up for it.
MergeLookups(base) ==
    { [slot |-> 0, module |-> v.module, path |-> base[1][v.module].name,
       lora_name |-> v.lora_name] :
        v \in Range(MergeVisits(base[1], LORA_PREFIX_TEXT_ENCODER,
                                TEXT_ENCODER_TARGET_REPLACE_MODULE,
                                UNET_TARGET_REPLACE_NAME)) }
    \cup
    { [slot |-> 2, module |-> v.module, path |-> base[3][v.module].name,
       lora_name |-> v.lora_name] :
        v \in Range(MergeVisits(base[3], LORA_PREFIX_UNET,
                                UNET_TARGET_REPLACE_MODULE,
                                UNET_TARGET_REPLACE_NAME)) }

\* The layers the make_state_dict calls of extract_diff match in a pair of
\* bundles (lines 271 to 296), each with its bundle slot, its index and
\* path in the component.
ExtractLookups(base, db) ==
    LET unet == IF Len(base) = 6 THEN 3 ELSE 2
        of(slot, targets, names) ==
            { [slot |-> slot, module |-> v.module, path |-> v.name \o v.child_name] :
                v \in Range(ExtractVisits(base[slot + 1], db[slot + 1], targets, names)) }
    IN  of(0, TEXT_ENCODER_TARGET_REPLACE_MODULE, {})
        \cup (IF Len(base) = 6
              THEN of(1, TEXT_ENCODER_TARGET_REPLACE_MODULE, {}) ELSE {})
        \cup of(unet, UNET_TARGET_REPLACE_MODULE, UNET_TARGET_REPLACE_NAME)

\* C1.  After merge, every layer merge walks whose key has no signature
\* entry in the state has the weight and bias it had before the call, and
\* merge did not stop with an error at that layer.
MergeSkipsMissing ==
    pc = "merged" =>
        \A l \in MergeLookups(call.base_model) :
            get_module(call.lyco_state_dict, l.lora_name).type = "None" =>
                /\ base_model[l.slot + 1][l.module].weight
                       = call.base_model[l.slot + 1][l.module].weight
                /\ base_model[l.slot + 1][l.module].bias
                       = call.base_model[l.slot + 1][l.module].bias
                /\ ~(ret.kind = "raised" /\ ret.at = l.lora_name)

\* C2.  After a merge at scale s that completed, every walked layer whose
\* key is in the state has the weight it had before the call plus s times
\* the delta rebuild_weight reconstructs at scale 1: the delta is added
\* once, also for a layer under more than one target-class container.
ScaleLinear ==
    pc = "merged" /\ ret.kind = "ok" =>
        \A l \in MergeLookups(call.base_model) :
            LET m == call.base_model[l.slot + 1][l.module]
                p == get_module(lyco_state_dict, l.lora_name)
            IN  p.type # "None" =>
                    base_model[l.slot + 1][l.module].weight
                        = TAdd(m.weight,
                               TScale(TSub(rebuild_weight(p, m.weight, m.bias, 1).merged,
                                           m.weight),
                                      call.scale))

\* C3.  For every layer entry extract_diff emits for a bundle, merge on a
\* bundle of the same shape looks up the same flat key for the same layer
\* (same slot, same path).
NamingAgreement ==
    pc = "extracted" =>
        \A e \in log :
            \E l \in MergeLookups(base_model) :
                l.slot = e.slot /\ l.path = e.path /\ l.lora_name = e.lora_name

\* C4.  With min_diff > 0, a matched layer of any component whose weight
\* difference has a maximum absolute value below min_diff writes no entry
\* into the returned mapping.
MinDiffFilter ==
    pc = "extracted" /\ ret.kind = "ok" /\ call.min_diff > 0 =>
        \A l \in ExtractLookups(base_model, db_model) :
            MaxAbs(TSub(db_model[l.slot + 1][l.module].weight,
                        base_model[l.slot + 1][l.module].weight)) < call.min_diff
            => ~\E e \in log : e.slot = l.slot /\ e.path = l.path

\* C8.  In a mapping extract_diff returns, each emitted layer name carries
\* the signature key of one kind only ('.lora_up.weight' with
\* '.lora_down.weight' and '.alpha', or '.diff'), and get_module returns
\* that kind for it.
KindExclusive ==
    pc = "extracted" /\ ret.kind = "ok" =>
        \A e \in log :
            /\ ~(Has(lyco_state_dict, e.lora_name, ".lora_up.weight")
                 /\ Has(lyco_state_dict, e.lora_name, ".diff"))
            /\ Has(lyco_state_dict, e.lora_name, ".lora_up.weight") =>
                   /\ Has(lyco_state_dict, e.lora_name, ".lora_down.weight")
                   /\ Has(lyco_state_dict, e.lora_name, ".alpha")
            /\ get_module(lyco_state_dict, e.lora_name).type
                   = (IF e.kind = "low rank" THEN "locon" ELSE "full")

\* C9.  Within one extract_diff call, two distinct layers (different
\* component or different path) never write under the same flat key.
KeyUnique ==
    pc = "extracted" =>
        \A e1 \in log, e2 \in log :
            e1.lora_name = e2.lora_name => e1.slot = e2.slot /\ e1.path = e2.path

\* C11.  merge reads the factorized state only: after the call the
\* caller's mapping has the keys it had before, each bound to the tensor
\* it was bound to before (same dtype, same values).
MergeReadsOnly ==
    pc = "merged" =>
        /\ DOMAIN lyco_state_dict = DOMAIN call.lyco_state_dict
        /\ \A k \in DOMAIN call.lyco_state_dict :
               lyco_state_dict[k] = call.lyco_state_dict[k]

====
